---- MODULE Spec2Model ----
(***************************************************************************)
(* A model of the submodule updater: SubmoduleUpdater.updateSubmodules and  *)
(* the services it drives (RepositoryService, GitService, GitHubService).   *)
(*                                                                          *)
(* Error messages are sequences of words, so that String.includes is a      *)
(* case-sensitive search for a contiguous run of words and wrapping an      *)
(* error in a new Error(`prefix: ${error}`) is concatenation.               *)
(* Every git / GitHub / filesystem call that can fail takes its response    *)
(* from the environment, which makes at most MaxFaults calls fail.            *)
(***************************************************************************)
EXTENDS Integers, Sequences, FiniteSets, TLC

\* ---------------------------------------------------------------- bounds
MaxRuns == 2        \* calls of updateSubmodules on one SubmoduleUpdater
NumSub == 2         \* sections of .gitmodules
MaxFaults == 1      \* failing external calls injected into one behaviour
MaxTicks == 2       \* times the cron task of one Scheduler fires

\* ---------------------------------------------------------------- values
Commits == {"c1", "c2"}
Unknown == "unknown"
Unset == ""
UrlKinds == {"github", "other"}
TmpRoots == {"/tmp", "/var/tmp"}

NoError == <<>>

\* Paths: the directory a path lies in, its fixed prefix and a unique suffix.
NoPath == [dir |-> "", base |-> "", n |-> 0]
CwdPath == [dir |-> ".", base |-> "", n |-> 0]
UserPath == [dir |-> "/home", base |-> "repo", n |-> 0]
ScratchPath(root, k) == [dir |-> root, base |-> "submodule-updater-", n |-> k]
ScratchPaths == {ScratchPath(r, k) : r \in TmpRoots, k \in 1..MaxRuns}
AllPaths == {CwdPath, UserPath} \cup ScratchPaths

\* this.repoPath.startsWith('/tmp/submodule-updater-')
StartsWithTmpPrefix(p) == p.dir = "/tmp" /\ p.base = "submodule-updater-"

\* ---------------------------------------------------------------- text
\* message.includes(phrase)
Includes(msg, phrase) ==
  \E i \in 1..(Len(msg) - Len(phrase) + 1) :
     SubSeq(msg, i, i + Len(phrase) - 1) = phrase

\* new Error(`${prefix} ${error}`): String(error) of an Error is "Error: <message>"
Wrap(prefix, msg) == prefix \o <<"Error:">> \o msg

\* What git prints when a push is refused.
TxtNonFastForward == <<"rejected", "non-fast-forward">>
TxtFetchFirst == <<"rejected", "fetch", "first">>
TxtPermission == <<"remote:", "permission", "denied">>
TxtAccess == <<"remote:", "access", "denied">>
TxtNotFound == <<"remote:", "repository", "not", "found">>
TxtProtected == <<"remote:", "protected", "branch", "update", "failed">>
TxtRemoteRejected == <<"remote", "rejected", "protected", "branch", "hook", "declined">>
TxtNetwork == <<"unable", "to", "access">>
PushErrorTexts == {TxtNonFastForward, TxtFetchFirst, TxtPermission, TxtAccess,
                   TxtNotFound, TxtProtected, TxtRemoteRejected, TxtNetwork}

\* What git prints when a pull fails.
TxtSubmoduleConflict == <<"CONFLICT", "submodule", "Merge", "conflict">>
TxtSubmoduleFetch == <<"Errors", "during", "submodule", "fetch">>
TxtMergeFailed == <<"Automatic", "merge", "failed">>
TxtGit == <<"git", "failed">>

MsgPermissionDenied ==
  <<"Permission", "denied", "pushing", "to", "repository.", "Please", "check",
    "your", "credentials", "and", "access", "rights.">>
MsgRepositoryNotFound ==
  <<"Repository", "not", "found.", "Please", "check", "the", "remote", "URL",
    "and", "repository", "name.">>
MsgProtectedBranch ==
  <<"Branch", "'main'", "is", "protected", "and", "cannot", "be", "pushed", "to",
    "directly.", "Please", "use", "a", "pull", "request", "or", "contact",
    "repository", "administrators.">>

FailedToPush == <<"Failed", "to", "push", "changes:">>
FailedToPull == <<"Failed", "to", "pull", "and", "merge", "changes:">>
FailedToSync == <<"Failed", "to", "sync", "remote", "changes:">>
FailedToSyncSubmodules == <<"Failed", "to", "sync", "submodules:">>
FailedToInitialize == <<"Failed", "to", "initialize", "submodules:">>
FailedToUpdate == <<"Failed", "to", "update", "submodule:">>
FailedToCommit == <<"Failed", "to", "commit", "submodule", "update:">>
FailedToRead == <<"Failed", "to", "read", ".gitmodules:">>
MsgPathMissing == <<"Repository", "path", "does", "not", "exist:">>
MsgCloneFailed == <<"git", "clone", "failed">>

\* One call of the git client: the command and the error it ended with.
Op(name, err) == [op |-> name, err |-> err]
Failed(ops) == {i \in 1..Len(ops) : ops[i].err # NoError}
Count(ops, name) == Cardinality({i \in 1..Len(ops) : ops[i].op = name})

\* ---------------------------------------------------------------- GitService
\* Responses of the remote to git push, git fetch, git pull, git reset, git checkout.
PushResponses == {NoError} \cup PushErrorTexts
\* The error of the second push is wrapped whatever it says: one refusal and one
\* failure stand for all.
RetryResponses == {NoError, TxtNonFastForward, TxtNetwork}
FetchResponses == {NoError, TxtNetwork}
PullResponses == {NoError, TxtSubmoduleConflict, TxtSubmoduleFetch, TxtMergeFailed}
GitResponses == {NoError, TxtGit}

\* The result of a GitService call: the git commands it ran, the error it threw
\* (NoError when it returned), whether it hard-reset the branch to origin and
\* whether a push reached the remote.
Result(ops, error, reset, pushed) ==
  [ops |-> ops, error |-> error, reset |-> reset, pushed |-> pushed]

\* handlePushError: the message of the error it throws for the push error text.
HandlePushError(msg) ==
  IF Includes(msg, <<"permission", "denied">>) \/ Includes(msg, <<"access", "denied">>)
    THEN MsgPermissionDenied
  ELSE IF Includes(msg, <<"repository", "not", "found">>)
    THEN MsgRepositoryNotFound
  ELSE IF Includes(msg, <<"protected", "branch">>)
    THEN MsgProtectedBranch
  ELSE msg

\* The test pushChanges makes on the error of the direct push.
IsRemoteAhead(msg) ==
  \/ Includes(msg, <<"non-fast-forward">>)
  \/ Includes(msg, <<"fetch", "first">>)
  \/ Includes(msg, <<"rejected">>)

\* The test pullAndMerge and syncRemoteChanges make on the error of git pull.
IsSubmoduleConflict(msg) == Includes(msg, <<"submodule">>)

\* git pull and its recovery, as pullAndMerge and syncRemoteChanges run it:
\* the outcomes after the commands `before`, errors wrapped with `prefix`.
PullOutcomes(before, prefix, pulls) ==
  UNION {
    IF p = NoError
      THEN {Result(before \o <<Op("pull", p)>>, NoError, FALSE, FALSE)}
    ELSE IF IsSubmoduleConflict(p)
      THEN {Result(before \o <<Op("pull", p), Op("reset", r)>>,
                   IF r = NoError THEN NoError ELSE Wrap(prefix, r),
                   r = NoError, FALSE) : r \in GitResponses}
    ELSE {Result(before \o <<Op("pull", p)>>, Wrap(prefix, p), FALSE, FALSE)}
    : p \in pulls }

\* pullAndMerge: checks the branch out when the tree is on another one.
PullAndMergeOutcomes ==
  PullOutcomes(<<>>, FailedToPull, PullResponses)
  \cup UNION {
    IF c = NoError
      THEN PullOutcomes(<<Op("checkout", c)>>, FailedToPull, PullResponses)
      ELSE {Result(<<Op("checkout", c)>>, Wrap(FailedToPull, c), FALSE, FALSE)}
    : c \in GitResponses }

\* A second push that is tried once more when it fails: what C2 rules out.
RetryPushTwice(before, reset) ==
  {Result(before \o <<Op("push", r), Op("push", r)>>,
          IF r = NoError THEN NoError ELSE Wrap(FailedToPush, r),
          reset, r = NoError) : r \in RetryResponses}

\* The second push of pushChanges, after the commands `before`.
RetryPush(before, reset) ==
  {Result(before \o <<Op("push", r)>>,
          IF r = NoError THEN NoError ELSE Wrap(FailedToPush, r),
          reset, r = NoError) : r \in RetryResponses}

\* The recovery of pushChanges from a push refused with `first`.
RecoverPush(first) ==
  UNION {
    IF f # NoError
      THEN {Result(<<Op("push", first), Op("fetch", f)>>,
                   Wrap(FailedToPush, f), FALSE, FALSE)}
      ELSE UNION {
        IF m.error # NoError
          THEN {Result(<<Op("push", first), Op("fetch", f)>> \o m.ops,
                       Wrap(FailedToPush, m.error), m.reset, FALSE)}
          ELSE RetryPush(<<Op("push", first), Op("fetch", f)>> \o m.ops, m.reset)
        : m \in PullAndMergeOutcomes }
    : f \in FetchResponses }

\* A forced push that is recovered like a plain one when it fails: what C12 rules out.
PushChangesRecoveringForce(forcePush) ==
  UNION {
    IF r = NoError
      THEN {Result(<<Op(IF forcePush THEN "push --force" ELSE "push", r)>>,
                   NoError, FALSE, TRUE)}
      ELSE RetryPush(<<Op(IF forcePush THEN "push --force" ELSE "push", r),
                       Op("fetch", NoError), Op("pull", NoError)>>, FALSE)
    : r \in PushResponses }

\* pushChanges(branch, forcePush): every outcome the remote's responses allow.
PushChanges(forcePush) ==
  IF forcePush
    THEN {Result(<<Op("push --force", r)>>,
                 IF r = NoError THEN NoError ELSE Wrap(FailedToPush, r),
                 FALSE, r = NoError) : r \in PushResponses}
    ELSE UNION {
      IF r = NoError
        THEN {Result(<<Op("push", r)>>, NoError, FALSE, TRUE)}
      ELSE IF IsRemoteAhead(r)
        THEN RecoverPush(r)
      ELSE {Result(<<Op("push", r)>>, Wrap(FailedToPush, HandlePushError(r)),
                   FALSE, FALSE)}
      : r \in PushResponses }

\* A detection that goes by the tips it last knew when its fetch fails: what C26
\* rules out.
IsBehindRemoteUnchecked(probe, differs) == differs

\* isBehindRemote: false when the fetch or a rev-parse fails, else whether the
\* local tip differs from origin's.
IsBehindRemote(probe, differs) == probe = NoError /\ differs

\* A synchronisation that swallows its errors: what C11 rules out.
SyncRemoteChangesQuietly(differs, foreign) ==
  {Result(<<Op("fetch", f)>>, NoError, FALSE, FALSE) : f \in FetchResponses}

\* syncRemoteChanges(branch): `differs` says whether the local tip differs from
\* origin's, `foreign` whether origin holds commits the local branch lacks.
SyncRemoteChanges(differs, foreign) ==
  UNION {
    IF f # NoError
      THEN {Result(<<Op("fetch", f)>>, Wrap(FailedToSync, f), FALSE, FALSE)}
      ELSE UNION {
        IF IsBehindRemote(probe, differs)
          THEN PullOutcomes(<<Op("fetch", f), Op("fetch", probe)>>, FailedToSync,
                            IF foreign THEN PullResponses ELSE {NoError, TxtMergeFailed})
          ELSE {Result(<<Op("fetch", f), Op("fetch", probe)>>, NoError, FALSE, FALSE)}
        : probe \in FetchResponses }
    : f \in FetchResponses }

\* ---------------------------------------------------------------- state
VARIABLES
  tmpdir,        \* os.tmpdir()
  githubConfig,  \* whether SubmoduleUpdater.githubConfig is set
  requestedPath, \* the repoPath the SubmoduleUpdater was constructed with
  manifest,      \* the well-formed sections of the repository's .gitmodules
  fs,            \* what lies at each path: "absent", "empty", "foreign", "git"
  repoPath,      \* SubmoduleUpdater.repoPath
  gitPath,       \* the path SubmoduleUpdater.gitService works on
  tempDir,       \* RepositoryService.tempDir
  nextTmp,       \* the suffix mkdtempSync gives next
  headBind,      \* working tree: the commit HEAD binds each submodule to
  staged,        \* working tree: the bindings staged in the index
  ahead,         \* working tree: the branch holds commits origin lacks
  remoteBind,    \* the remote branch: the commit it binds each submodule to
  upstream,      \* the tip of each submodule's tracked branch
  pc,            \* where the call of updateSubmodules stands
  runs,          \* calls of updateSubmodules started
  opts,          \* options of the call
  submodules,    \* the records of the call
  idx,           \* the record the update loop is at
  results,       \* the outcomes collected
  ops,           \* the git commands of the call
  logged,        \* the suggestions the call logged
  runResult,     \* how the call ended
  faults,        \* failures injected so far
  clean,         \* no failure was injected into the call
  provisioned,   \* scratch directories the call created
  initBranch,    \* the branch initializeRepository took in the call
  prevOk,        \* the previous call returned and every outcome was applied
  lost,          \* the paths whose applied update a reset of the previous call discarded
  pushFailed,    \* pushChanges of the previous call threw
  changed,       \* an upstream moved since the previous call ended
  resolved,      \* the submodule paths whose latest commit GitHub gave the call
  task,          \* the Scheduler's cron task
  runUpdate,     \* the Scheduler's calls of runUpdate: where each one stands
  exitCode,      \* how the process of the entry point ended, "none" while it runs
  unit           \* a single function taken on its own: its inputs and what it gave

vars == <<tmpdir, githubConfig, requestedPath, manifest, fs, repoPath, gitPath, tempDir, nextTmp,
          headBind, staged, ahead, remoteBind, upstream, pc, runs, opts,
          submodules, idx, results, ops, logged, runResult, faults, clean,
          provisioned, initBranch, prevOk, lost, pushFailed,
          changed, resolved, task, runUpdate, exitCode, unit>>

config == <<tmpdir, githubConfig, requestedPath, manifest>>
disk == <<fs, repoPath, gitPath, tempDir, nextTmp>>
tree == <<headBind, staged, ahead>>
world == <<remoteBind, upstream>>
history == <<prevOk, lost, pushFailed, changed>>
cron == <<task, runUpdate, exitCode, unit>>
engine == <<pc, runs, opts, submodules, idx, results, ops, logged, runResult, faults, clean,
          provisioned, initBranch, resolved>>

SubPaths == 1..NumSub
NoBinding == [p \in SubPaths |-> Unset]
Manifests ==
  UNION {[1..n -> UrlKinds] : n \in 0..NumSub}

\* Deployments that differ in what no call ever reads are taken once: the
\* temporary directory matters where a scratch clone is made, .gitmodules and
\* the GitHub configuration where a call gets to a working tree.
ScratchUsed(kind, token) == token /\ kind \in {"none", "foreign"}
ReadsManifest(kind, token) == kind \in {"none", "git"} \/ (token /\ kind # "absent")

NoResult == [status |-> "none", error |-> NoError]
Returned == [status |-> "returned", error |-> NoError]
Threw(msg) == [status |-> "threw", error |-> msg]

Boot ==
  /\ tmpdir \in TmpRoots
  /\ githubConfig \in BOOLEAN
  /\ manifest \in Manifests
  /\ \E kind \in {"none", "absent", "empty", "foreign", "git"} :
       /\ ScratchUsed(kind, githubConfig) \/ tmpdir = "/tmp"
       /\ ReadsManifest(kind, githubConfig) \/ manifest = <<>>
       /\ kind = "absent" => githubConfig
       /\ requestedPath = (IF kind = "none" THEN NoPath ELSE UserPath)
       /\ fs = [p \in AllPaths |->
                  IF p = CwdPath THEN "git"
                  ELSE IF p = UserPath /\ kind # "none" THEN kind
                  ELSE "absent"]
  /\ repoPath = requestedPath
  /\ gitPath = (IF requestedPath = NoPath THEN CwdPath ELSE requestedPath)
  /\ tempDir = NoPath
  /\ nextTmp = 1
  /\ headBind = [p \in SubPaths |-> "c1"]
  /\ staged = NoBinding
  /\ ahead = FALSE
  /\ remoteBind = [p \in SubPaths |-> "c1"]
  /\ upstream = [p \in SubPaths |-> "c1"]
  /\ pc = "idle"
  /\ runs = 0
  /\ opts = [skipPush |-> FALSE, forcePush |-> FALSE]
  /\ submodules = <<>>
  /\ idx = 1
  /\ results = <<>>
  /\ ops = <<>>
  /\ logged = {}
  /\ runResult = NoResult
  /\ faults = 0
  /\ clean = TRUE
  /\ provisioned = {}
  /\ initBranch = "none"
  /\ prevOk = FALSE
  /\ lost = {}
  /\ pushFailed = FALSE
  /\ changed = FALSE
  /\ resolved = {}
  /\ task = "none"
  /\ runUpdate = [k \in 0..MaxTicks |-> "none"]
  /\ exitCode = "none"

\* No function is taken on its own.
NoUnit == [fn |-> "none"]

Init == Boot /\ unit = NoUnit

\* One deployment, for the specifications that take a function on its own: the
\* working directory, a GitHub configuration, no submodule.
Parked ==
  /\ Boot
  /\ githubConfig
  /\ requestedPath = NoPath
  /\ manifest = <<>>
  /\ tmpdir = "/tmp"

\* ---------------------------------------------------------------- environment
\* The tracked branch of a submodule the updater looks up moves on between two calls.
UpstreamChange ==
  /\ pc = "idle"
  /\ runs < MaxRuns
  /\ githubConfig
  /\ \E p \in 1..Len(manifest) :
       /\ manifest[p] = "github"
       /\ upstream[p] = "c1"
       /\ upstream' = [upstream EXCEPT ![p] = "c2"]
  /\ changed' = TRUE
  /\ UNCHANGED <<config, cron, resolved, disk, tree, remoteBind, pc, runs, opts, submodules, idx,
                 results, ops, logged, runResult, faults, clean, provisioned, initBranch,
                 prevOk, lost, pushFailed>>

\* ---------------------------------------------------------------- updateSubmodules
\* The call starts: updateSubmodules(repoBranch, options). Each option is drawn
\* where the call first reads it: skipPush after the update loop, forcePush at
\* pushChanges.
StartRun ==
  /\ pc = "idle"
  /\ runs < MaxRuns
  /\ pc' = "init"
  /\ runs' = runs + 1
  /\ UNCHANGED <<config, cron, resolved, disk, tree, world, history, opts, submodules, idx, results,
                 ops, logged, runResult, faults, clean, provisioned, initBranch>>

\* The environment makes `n` more calls fail, of MaxFaults at most.
Cost(r) == IF r = NoError THEN 0 ELSE 1
Charge(n) ==
  /\ faults + n <= MaxFaults
  /\ faults' = faults + n
  /\ clean' = (clean /\ n = 0)

\* A push refused because the remote moved on is the remote's regular answer: it is
\* none of the failures counted.
Injected(log) ==
  {i \in Failed(log) :
     ~(log[i].op = "push" /\ log[i].err \in {TxtNonFastForward, TxtFetchFirst})}

\* cleanupRepository: RepositoryService.cleanup() is called for a path under
\* /tmp/submodule-updater-, and removes the directory tempDir names.
CleanupApplies(path, temp) ==
  path # NoPath /\ StartsWithTmpPrefix(path) /\ temp # NoPath

\* A teardown that raises what rmSync raised: what C22 rules out.
CleanupRaising(result, rm) == IF rm = NoError THEN result ELSE Threw(rm)

\* RepositoryService.cleanup with rmSync answering `rm`, around a caller that ends
\* with `result`: the catch logs a failed removal, and the caller's result stands.
Cleanup(result, rm) == result

\* The call ends with `result`: the finally of updateSubmodules runs
\* cleanupRepository on the disk (f, t) the call leaves, `n` failures injected.
Finish(result, f, t, n) ==
  /\ pc' = "done"
  /\ \E rm \in GitResponses :
       LET removed == CleanupApplies(repoPath, t) /\ rm = NoError IN
       /\ ~CleanupApplies(repoPath, t) => rm = NoError
       /\ Charge(n + Cost(rm))
       /\ runResult' = Cleanup(result, rm)
       /\ fs' = (IF removed THEN [f EXCEPT ![t] = "absent"] ELSE f)
       /\ tempDir' = (IF removed THEN NoPath ELSE t)

\* The call goes on at `next`, `n` failures injected.
Continue(next, n) ==
  /\ pc' = next
  /\ Charge(n)
  /\ UNCHANGED <<fs, tempDir, runResult>>

\* A failed clone that leaves its scratch directory behind: what C23 rules out.
FailedCloneLeft(new, rm) == [at |-> "foreign", tempDir |-> new]

\* The catch of cloneRepository for a scratch clone: cleanup() with rmSync answering
\* `rm`. What then lies at the scratch directory `new`, and what tempDir holds.
FailedClone(new, rm) ==
  IF rm = NoError THEN [at |-> "absent", tempDir |-> NoPath]
  ELSE [at |-> "foreign", tempDir |-> new]

\* RepositoryService.cloneRepository: mkdtempSync under os.tmpdir(), then git clone;
\* a failed clone runs cleanup() before it throws. `after` are the git commands
\* initializeRepository runs once the clone is there.
CloneRepository(branch, after) ==
  LET new == ScratchPath(tmpdir, nextTmp) IN
  /\ nextTmp' = nextTmp + 1
  /\ provisioned' = provisioned \cup {new}
  /\ initBranch' = branch
  /\ \E c \in {NoError, MsgCloneFailed}, rm \in GitResponses :
       /\ c = NoError => rm = NoError
       /\ IF c = NoError
            THEN /\ fs' = [fs EXCEPT ![new] = "git"]
                 /\ tempDir' = new
                 /\ repoPath' = new
                 /\ gitPath' = new
                 /\ headBind' = remoteBind
                 /\ staged' = NoBinding
                 /\ ahead' = FALSE
                 /\ ops' = after
                 /\ pc' = "parse"
                 /\ Charge(0)
                 /\ UNCHANGED runResult
            ELSE /\ Finish(Cleanup(Threw(c), rm),
                           [fs EXCEPT ![new] = FailedClone(new, rm).at],
                           FailedClone(new, rm).tempDir,
                           1 + Cost(rm))
                 /\ UNCHANGED <<repoPath, gitPath, tree, ops>>

\* initializeRepository, no path set and a GitHub configuration: a scratch clone.
InitScratch ==
  /\ pc = "init"
  /\ repoPath = NoPath
  /\ githubConfig
  /\ CloneRepository("scratch", <<>>)
  /\ UNCHANGED <<config, cron, resolved, world, runs, opts, submodules, idx, results, logged, history>>

\* initializeRepository, no path set and no GitHub configuration: the current directory.
InitCwd ==
  /\ pc = "init"
  /\ repoPath = NoPath
  /\ ~githubConfig
  /\ repoPath' = CwdPath
  /\ gitPath' = CwdPath
  /\ initBranch' = "cwd"
  /\ pc' = "parse"
  /\ UNCHANGED <<config, cron, resolved, fs, tempDir, nextTmp, tree, world, runs, opts, submodules,
                 idx, results, ops, logged, runResult, faults, clean, provisioned,
                 history>>

\* initializeRepository, the path set does not exist.
InitMissing ==
  /\ pc = "init"
  /\ repoPath # NoPath
  /\ fs[repoPath] = "absent"
  /\ initBranch' = "missing"
  /\ Finish(Threw(MsgPathMissing), fs, tempDir, 0)
  /\ UNCHANGED <<config, cron, resolved, repoPath, gitPath, nextTmp, tree, world, runs, opts,
                 submodules, idx, results, ops, logged, provisioned, history>>

\* initializeRepository, the path set is an empty directory: it is removed and the
\* repository is cloned into it (cloneRepositoryToPath with a target path).
InitEmpty ==
  /\ pc = "init"
  /\ repoPath # NoPath
  /\ fs[repoPath] = "empty"
  /\ initBranch' = "into"
  /\ \E rm \in GitResponses, c \in {NoError, MsgCloneFailed} :
       LET left == [fs EXCEPT ![repoPath] = IF rm = NoError THEN "absent" ELSE "empty"] IN
       /\ ~githubConfig => c = NoError
       /\ IF c # NoError
            THEN /\ Finish(Threw(c), left, tempDir, Cost(rm) + 1)
                 /\ UNCHANGED <<gitPath, tree, ops>>
            ELSE /\ Charge(Cost(rm))
                 /\ pc' = "parse"
                 /\ tempDir' = tempDir
                 /\ runResult' = runResult
                 /\ ops' = <<Op("config", IF githubConfig THEN NoError ELSE TxtGit)>>
                 /\ IF githubConfig
                      THEN /\ fs' = [fs EXCEPT ![repoPath] = "git"]
                           /\ gitPath' = repoPath
                           /\ headBind' = remoteBind
                           /\ staged' = NoBinding
                           /\ ahead' = FALSE
                      ELSE /\ fs' = left
                           /\ UNCHANGED <<gitPath, tree>>
  /\ UNCHANGED <<config, cron, resolved, repoPath, nextTmp, world, runs, opts, submodules, idx,
                 results, logged, provisioned, history>>

\* initializeRepository, the path set is a directory with foreign content and a GitHub
\* configuration is set: a scratch clone instead.
InitFallback ==
  /\ pc = "init"
  /\ repoPath # NoPath
  /\ fs[repoPath] = "foreign"
  /\ githubConfig
  /\ CloneRepository("fallback", <<Op("config", NoError)>>)
  /\ UNCHANGED <<config, cron, resolved, world, runs, opts, submodules, idx, results, logged, history>>

\* initializeRepository, foreign content and no GitHub configuration: nothing is
\* cloned and the git service stays on the path.
InitForeign ==
  /\ pc = "init"
  /\ repoPath # NoPath
  /\ fs[repoPath] = "foreign"
  /\ ~githubConfig
  /\ initBranch' = "foreign"
  /\ ops' = <<Op("config", TxtGit)>>
  /\ pc' = "parse"
  /\ UNCHANGED <<config, cron, resolved, disk, tree, world, runs, opts, submodules, idx, results,
                 logged, runResult, faults, clean, provisioned, history>>

\* initializeRepository, the path set holds a git repository: it is used.
InitLocal ==
  /\ pc = "init"
  /\ repoPath # NoPath
  /\ fs[repoPath] = "git"
  /\ gitPath' = repoPath
  /\ initBranch' = "local"
  /\ ops' = <<Op("config", NoError)>>
  /\ pc' = "parse"
  /\ UNCHANGED <<config, cron, resolved, fs, repoPath, tempDir, nextTmp, tree, world, runs, opts,
                 submodules, idx, results, logged, runResult, faults, clean,
                 provisioned, history>>

InitializeRepository ==
  \/ InitScratch
  \/ InitCwd
  \/ InitMissing
  \/ InitEmpty
  \/ InitFallback
  \/ InitForeign
  \/ InitLocal

\* A record as parseGitmodulesContent makes it.
Record(path, url) ==
  [path |-> path, url |-> url, currentCommit |-> Unset, latestCommit |-> Unset,
   needsUpdate |-> FALSE]

\* A call that goes on with no submodule: what C15 rules out.
NoSubmodulesNever(ss) == FALSE

\* The test updateSubmodules makes on the parsed records before it goes on.
NoSubmodules(ss) == Len(ss) = 0

\* parseGitmodules(this.repoPath), then the return of [] for no submodule.
ParseGitmodules ==
  /\ pc = "parse"
  /\ \E r \in {NoError, TxtGit} :
       LET n == IF fs[repoPath] = "git" THEN Cost(r) ELSE 0 IN
       /\ fs[repoPath] # "git" => r = TxtGit
       /\ IF r # NoError
            THEN /\ Finish(Threw(Wrap(FailedToRead, r)), fs, tempDir, n)
                 /\ UNCHANGED submodules
            ELSE /\ submodules' = [i \in 1..Len(manifest) |-> Record(i, manifest[i])]
                 /\ IF NoSubmodules(submodules')
                      THEN Finish(Returned, fs, tempDir, n)
                      ELSE Continue("resolve", n)
  /\ UNCHANGED <<config, cron, resolved, repoPath, gitPath, nextTmp, tree, world, runs, opts, idx,
                 results, ops, logged, provisioned, initBranch, history>>

\* A failed read of the recorded commit that leaves the field as parsed: what C14
\* rules out.
ResolveCurrentOrNothing(s, r) ==
  IF r = NoError THEN [s EXCEPT !.currentCommit = headBind[s.path]] ELSE s

\* One turn of the loop over getSubmoduleCurrentCommit: a failed read gives 'unknown'.
ResolveCurrent(s, r) ==
  [s EXCEPT !.currentCommit = IF r = NoError THEN headBind[s.path] ELSE Unknown]

\* extractGitHubInfo: null for a URL that names no GitHub repository.
ExtractGitHubInfo(url) == url = "github"

\* A failed lookup that leaves the record due for an update: what C13 rules out.
ResolveLatestFailingOpen(s, r) ==
  IF ~ExtractGitHubInfo(s.url) THEN s
  ELSE IF r = NoError
    THEN [s EXCEPT !.latestCommit = upstream[s.path],
                   !.needsUpdate = (upstream[s.path] # s.currentCommit)]
    ELSE [s EXCEPT !.needsUpdate = TRUE]

\* A lookup that marks every record it resolves as due: what C16 rules out.
ResolveLatestAlwaysDue(s, r) ==
  IF ~ExtractGitHubInfo(s.url) THEN s
  ELSE IF r = NoError
    THEN [s EXCEPT !.latestCommit = upstream[s.path], !.needsUpdate = TRUE]
    ELSE [s EXCEPT !.latestCommit = s.currentCommit, !.needsUpdate = FALSE]

\* One turn of the loop of fetchLatestCommits; `r` is the answer of GitHub.
ResolveLatest(s, r) ==
  IF ~ExtractGitHubInfo(s.url) THEN s
  ELSE IF r = NoError
    THEN [s EXCEPT !.latestCommit = upstream[s.path],
                   !.needsUpdate = (upstream[s.path] # s.currentCommit)]
    ELSE [s EXCEPT !.latestCommit = s.currentCommit, !.needsUpdate = FALSE]

\* An update loop that passes over no record: what C4 rules out.
UpdateAlways(s) == TRUE

\* The test of the update loop on a record.
ShouldUpdate(s) == s.needsUpdate /\ s.currentCommit # s.latestCommit

\* The first record from `i` on that the update loop does not pass over.
RECURSIVE NextUpdate(_, _)
NextUpdate(ss, i) ==
  IF i > Len(ss) \/ ShouldUpdate(ss[i]) THEN i ELSE NextUpdate(ss, i + 1)

\* syncSubmodules(), the loop over getSubmoduleCurrentCommit and, with a GitHub
\* service, fetchLatestCommits; the update loop then stands at its first record.
ResolveCommits ==
  /\ pc = "resolve"
  /\ \E r \in GitResponses :
       /\ ops' = Append(ops, Op("submodule update", r))
       /\ IF r # NoError
            THEN /\ Finish(Threw(Wrap(FailedToSyncSubmodules, r)), fs, tempDir, 1)
                 /\ UNCHANGED <<submodules, idx, resolved>>
            ELSE \E noCurrent \in SUBSET (1..Len(submodules)),
                    noLatest \in SUBSET (1..Len(submodules)) :
                   LET Answered(i, failing) == IF i \in failing THEN TxtGit ELSE NoError
                       Asked == {i \in 1..Len(submodules) :
                                   githubConfig /\ ExtractGitHubInfo(submodules[i].url)}
                       Looked(failing) == Asked \ failing
                       current == [i \in 1..Len(submodules) |->
                                     ResolveCurrent(submodules[i], Answered(i, noCurrent))]
                       latest == [i \in 1..Len(submodules) |->
                                    IF githubConfig
                                      THEN ResolveLatest(current[i], Answered(i, noLatest))
                                      ELSE current[i]]
                   IN /\ noLatest \subseteq Asked
                      /\ submodules' = latest
                      /\ resolved' = {submodules[i].path : i \in Looked(noLatest)}
                      /\ idx' = NextUpdate(latest, 1)
                      /\ Continue("update", Cardinality(noCurrent) + Cardinality(noLatest))
  /\ UNCHANGED <<config, cron, repoPath, gitPath, nextTmp, tree, world, runs, opts, results,
                 logged, provisioned, initBranch, history>>

\* Where updateSingleSubmodule can fail: initializeSubmodules, updateSubmodule,
\* and in commitSubmoduleUpdate git add or git commit.
UpdateFaults == {"init", "checkout", "add", "commit"}

UpdateError(fault) ==
  IF fault = "init" THEN Wrap(FailedToInitialize, TxtGit)
  ELSE IF fault = "checkout" THEN Wrap(FailedToUpdate, TxtGit)
  ELSE Wrap(FailedToCommit, TxtGit)

\* An update that pushes its own commit: what C9 rules out.
UpdateOpsWithPush(fault) ==
  LET all == <<"submodule init", "submodule checkout", "add", "commit", "push">>
      last == CASE fault = "init" -> 1
                [] fault = "checkout" -> 2
                [] fault = "add" -> 3
                [] fault = "commit" -> 4
                [] OTHER -> 5
  IN [i \in 1..last |->
        Op(all[i], IF i = last /\ fault # "none" THEN TxtGit ELSE NoError)]

\* The git commands of updateSingleSubmodule up to the failing one.
UpdateOps(fault) ==
  LET all == <<"submodule init", "submodule checkout", "add", "commit">>
      last == CASE fault = "init" -> 1
                [] fault = "checkout" -> 2
                [] fault = "add" -> 3
                [] OTHER -> 4
  IN [i \in 1..last |->
        Op(all[i], IF i = last /\ fault # "none" THEN TxtGit ELSE NoError)]

\* An outcome that hides the failure of its update: what C5 rules out.
UpdateResultApplied(s, fault) ==
  [submodule |-> s.path, updated |-> TRUE, fromCommit |-> s.currentCommit,
   toCommit |-> s.latestCommit, error |-> NoError]

\* An outcome that never says what went wrong: what C28 rules out.
UpdateResultSilent(s, fault) ==
  [submodule |-> s.path, updated |-> fault = "none", fromCommit |-> s.currentCommit,
   toCommit |-> s.latestCommit, error |-> NoError]

\* The outcome updateSingleSubmodule returns.
UpdateResult(s, fault) ==
  [submodule |-> s.path,
   updated |-> fault = "none",
   fromCommit |-> s.currentCommit,
   toCommit |-> s.latestCommit,
   error |-> IF fault = "none" THEN NoError ELSE UpdateError(fault)]

\* git commit: HEAD takes every staged binding.
Commit(head, index) ==
  [p \in SubPaths |-> IF index[p] # Unset THEN index[p] ELSE head[p]]

\* One turn of the update loop: updateSingleSubmodule(submodule) and
\* results.push(result), then on to the next record to update.
UpdateSingleSubmodule ==
  /\ pc = "update"
  /\ idx <= Len(submodules)
  /\ \E fault \in UpdateFaults \cup {"none"} :
       LET s == submodules[idx]
           index == [staged EXCEPT ![s.path] = s.latestCommit]
       IN /\ Continue("update", IF fault = "none" THEN 0 ELSE 1)
          /\ results' = Append(results, UpdateResult(s, fault))
          /\ ops' = ops \o UpdateOps(fault)
          /\ headBind' = (IF fault = "none" THEN Commit(headBind, index) ELSE headBind)
          /\ staged' = (IF fault = "none" THEN NoBinding
                        ELSE IF fault = "commit" THEN index ELSE staged)
          /\ ahead' = (ahead \/ fault = "none")
  /\ idx' = NextUpdate(submodules, idx + 1)
  /\ UNCHANGED <<config, cron, resolved, repoPath, gitPath, nextTmp, world, runs, opts, submodules,
                 logged, provisioned, initBranch, history>>

\* A push decided by skipPush alone: what C8 rules out.
PushUnlessSkipped(o, rs) == ~o.skipPush

\* The test before the call of pushChanges.
ShouldPush(o, rs) == ~o.skipPush /\ \E i \in 1..Len(rs) : rs[i].updated

\* The suggestion the catch around pushChanges logs for the error message.
Guidance(msg) ==
  IF Includes(msg, <<"protected", "branch">>) THEN {"protected branch"}
  ELSE IF Includes(msg, <<"permission", "denied">>) THEN {"permission denied"}
  ELSE IF Includes(msg, <<"merge", "conflicts">>) THEN {"merge conflicts"}
  ELSE {}

\* git reset --hard origin/<branch>, when `reset` says it ran.
ResetTree(reset) ==
  /\ headBind' = (IF reset THEN remoteBind ELSE headBind)
  /\ staged' = (IF reset THEN NoBinding ELSE staged)

\* A sync with the remote whatever the options say: what C38 rules out.
ShouldSyncAlways(o) == TRUE

\* The test before the call of syncRemoteChanges.
ShouldSync(o) == ~o.skipPush

\* The update loop is over and skipPush is set: neither syncRemoteChanges nor
\* pushChanges is called, the results are returned.
SkipPush ==
  /\ pc = "update"
  /\ idx > Len(submodules)
  /\ ~ShouldSync([skipPush |-> TRUE, forcePush |-> FALSE])
  /\ opts' = [skipPush |-> TRUE, forcePush |-> FALSE]
  /\ Finish(Returned, fs, tempDir, 0)
  /\ UNCHANGED <<config, cron, resolved, repoPath, gitPath, nextTmp, tree, world, runs, submodules,
                 idx, results, ops, logged, provisioned, initBranch, history>>

\* The update loop is over: syncRemoteChanges(branch). Its error ends the call; with
\* no outcome an update the results are returned; else pushChanges is next.
SyncRemote ==
  /\ pc = "update"
  /\ idx > Len(submodules)
  /\ \E skip \in BOOLEAN :
       /\ ShouldSync([skipPush |-> skip, forcePush |-> FALSE])
       /\ opts' = [skipPush |-> skip, forcePush |-> FALSE]
  /\ \E foreign \in BOOLEAN :
       \E s \in SyncRemoteChanges(ahead \/ foreign, foreign) :
         /\ ops' = ops \o <<Op("call syncRemoteChanges", NoError)>> \o s.ops
         /\ ResetTree(s.reset)
         /\ ahead' = (ahead /\ ~s.reset)
         /\ IF s.error # NoError
              THEN Finish(Threw(s.error), fs, tempDir, Cardinality(Injected(s.ops)))
            ELSE IF ~ShouldPush(opts', results)
              THEN Finish(Returned, fs, tempDir, Cardinality(Injected(s.ops)))
            ELSE Continue("push", Cardinality(Injected(s.ops)))
  /\ UNCHANGED <<config, cron, resolved, repoPath, gitPath, nextTmp, world, runs, submodules, idx,
                 results, logged, provisioned, initBranch, history>>

\* pushChanges(branch, forcePush) in its try: a push error is logged with the
\* suggestion for its message and thrown again; else the results are returned.
Push ==
  /\ pc = "push"
  /\ \E force \in BOOLEAN : \E p \in PushChanges(force) :
       /\ opts' = [opts EXCEPT !.forcePush = force]
       /\ ops' = ops \o <<Op("call pushChanges", NoError)>> \o p.ops
       /\ logged' = (IF p.error = NoError THEN {} ELSE Guidance(p.error))
       /\ ResetTree(p.reset)
       /\ ahead' = (ahead /\ ~p.reset /\ ~p.pushed)
       /\ remoteBind' = (IF p.pushed THEN headBind' ELSE remoteBind)
       /\ Finish(IF p.error = NoError THEN Returned ELSE Threw(p.error),
                 fs, tempDir, Cardinality(Injected(p.ops)))
  /\ UNCHANGED <<config, cron, resolved, repoPath, gitPath, nextTmp, upstream, runs, submodules,
                 idx, results, provisioned, initBranch, history>>

\* The caller has the results or the error: what the call leaves on the updater
\* for the next call.
Handover ==
  /\ pc = "done"
  /\ pc' = "idle"
  /\ prevOk' = (/\ runResult.status = "returned"
                /\ \A i \in 1..Len(results) : results[i].updated)
  /\ lost' = {results[i].submodule : i \in {k \in 1..Len(results) :
                  results[k].updated /\ headBind[results[k].submodule] # results[k].toCommit}}
  /\ pushFailed' = (runResult.status = "threw" /\ Count(ops, "call pushChanges") = 1)
  /\ changed' = FALSE
  /\ submodules' = <<>>
  /\ idx' = 1
  /\ results' = <<>>
  /\ ops' = <<>>
  /\ logged' = {}
  /\ runResult' = NoResult
  /\ clean' = TRUE
  /\ provisioned' = {}
  /\ initBranch' = "none"
  /\ opts' = [skipPush |-> FALSE, forcePush |-> FALSE]
  /\ resolved' = {}
  /\ UNCHANGED <<config, disk, tree, world, runs, faults>>

\* The caller has the results or the error (Scheduler.runUpdate logs them): the
\* updater is ready for the next call.
Return ==
  /\ Handover
  /\ UNCHANGED cron

Next ==
  \/ UpstreamChange
  \/ StartRun
  \/ InitializeRepository
  \/ ParseGitmodules
  \/ ResolveCommits
  \/ UpdateSingleSubmodule
  \/ SkipPush
  \/ SyncRemote
  \/ Push
  \/ Return

Spec == Init /\ [][Next]_vars

\* ---------------------------------------------------------------- scheduler
\* The Scheduler of the entry point: start() schedules the cron task, the entry point
\* then awaits an initial runUpdate, and the task calls runUpdate each time it fires.
\* Every runUpdate awaits updateSubmodules of the one SubmoduleUpdater; a call is
\* taken in three steps (initializeRepository, the body of the try block,
\* cleanupRepository) between which other callbacks can run.
Running == {k \in 0..MaxTicks : runUpdate[k] \in {"init", "work", "cleanup"}}

\* Scheduler.start: cron.schedule(cronExpression, callback).
SchedulerStart ==
  /\ task = "none"
  /\ task' = "scheduled"
  /\ UNCHANGED <<runUpdate, config, disk, tree, world, history, engine, exitCode, unit>>

\* Scheduler.stop: the task is stopped and fires no more.
SchedulerStop ==
  /\ task = "scheduled"
  /\ task' = "stopped"
  /\ UNCHANGED <<runUpdate, config, disk, tree, world, history, engine, exitCode, unit>>

\* The entry point's initial run: scheduler.runUpdate once start() has returned.
InitialRun ==
  /\ task = "scheduled"
  /\ runUpdate[0] = "none"
  /\ runUpdate' = [runUpdate EXCEPT ![0] = "init"]
  /\ UNCHANGED <<task, config, disk, tree, world, history, engine, exitCode, unit>>

\* The cron task fires: its callback calls runUpdate, whatever earlier calls do.
Tick ==
  /\ task = "scheduled"
  /\ \E k \in 1..MaxTicks :
       /\ runUpdate[k] = "none"
       /\ k > 1 => runUpdate[k - 1] # "none"
       /\ runUpdate' = [runUpdate EXCEPT ![k] = "init"]
  /\ UNCHANGED <<task, config, disk, tree, world, history, engine, exitCode, unit>>

\* initializeRepository of call k on the updater's fields as they are then.
CallInitialize(k) ==
  /\ runUpdate[k] = "init"
  /\ LET scratch == githubConfig /\ (repoPath = NoPath \/ fs[repoPath] = "foreign")
         into == githubConfig /\ repoPath # NoPath /\ fs[repoPath] = "empty"
         new == ScratchPath(tmpdir, nextTmp)
     IN /\ scratch => nextTmp <= MaxTicks + 1
        /\ runUpdate' = [runUpdate EXCEPT ![k] =
                          IF repoPath # NoPath /\ fs[repoPath] = "absent"
                            THEN "cleanup" ELSE "work"]
        /\ IF scratch
             THEN /\ fs' = [fs EXCEPT ![new] = "git"]
                  /\ tempDir' = new
                  /\ repoPath' = new
                  /\ gitPath' = new
                  /\ nextTmp' = nextTmp + 1
             ELSE /\ fs' = (IF repoPath # NoPath /\ fs[repoPath] = "empty"
                              THEN [fs EXCEPT ![repoPath] = IF into THEN "git" ELSE "absent"]
                              ELSE fs)
                  /\ repoPath' = (IF repoPath = NoPath THEN CwdPath ELSE repoPath)
                  /\ gitPath' = (IF repoPath = NoPath THEN CwdPath ELSE gitPath)
                  /\ UNCHANGED <<tempDir, nextTmp>>
  /\ UNCHANGED <<task, config, tree, world, history, engine, exitCode, unit>>

\* The body of updateSubmodules after initializeRepository, up to its finally.
CallWork(k) ==
  /\ runUpdate[k] = "work"
  /\ runUpdate' = [runUpdate EXCEPT ![k] = "cleanup"]
  /\ UNCHANGED <<task, config, disk, tree, world, history, engine, exitCode, unit>>

\* The finally of call k: cleanupRepository on the updater's fields as they are
\* then; runUpdate then returns.
CallCleanup(k) ==
  /\ runUpdate[k] = "cleanup"
  /\ runUpdate' = [runUpdate EXCEPT ![k] = "done"]
  /\ IF CleanupApplies(repoPath, tempDir)
       THEN /\ fs' = [fs EXCEPT ![tempDir] = "absent"]
            /\ tempDir' = NoPath
       ELSE UNCHANGED <<fs, tempDir>>
  /\ UNCHANGED <<task, config, repoPath, gitPath, nextTmp, tree, world, history, engine, exitCode, unit>>

SchedNext ==
  \/ SchedulerStart
  \/ SchedulerStop
  \/ InitialRun
  \/ Tick
  \/ \E k \in 0..MaxTicks : CallInitialize(k)
  \/ \E k \in 0..MaxTicks : CallWork(k)
  \/ \E k \in 0..MaxTicks : CallCleanup(k)

SchedSpec == Init /\ [][SchedNext]_vars

\* ---------------------------------------------------------------- the entry point, run-once
\* runUpdate without its catch: what updateSubmodules throws rejects its promise.
RunUpdateRaising(result) == IF result.status = "threw" THEN "rejected" ELSE "fulfilled"

\* Scheduler.runUpdate around updateSubmodules: the outcomes are logged one by one;
\* an error thrown by updateSubmodules is caught and logged. Its promise is
\* fulfilled either way.
RunUpdateSettles(result) == "fulfilled"

\* main with --once: await scheduler.runUpdate(repoBranch), then process.exit(0).
\* A rejection would reach main().catch, which exits with 1.
ExitAfter(settled) == IF settled = "rejected" THEN "exit 1" ELSE "exit 0"

\* The single call of run-once mode has ended, and the process exits.
RunOnceExit ==
  /\ pc = "done"
  /\ exitCode = "none"
  /\ pc' = "exited"
  /\ exitCode' = ExitAfter(RunUpdateSettles(runResult))
  /\ UNCHANGED <<config, task, runUpdate, disk, tree, world, history, runs, opts, submodules,
                 idx, results, ops, logged, runResult, faults, clean, provisioned,
                 initBranch, resolved, unit>>

OnceNext ==
  \/ UpstreamChange
  \/ StartRun
  \/ InitializeRepository
  \/ ParseGitmodules
  \/ ResolveCommits
  \/ UpdateSingleSubmodule
  \/ SkipPush
  \/ SyncRemote
  \/ Push
  \/ RunOnceExit

OnceSpec == Init /\ [][OnceNext]_vars

\* ---------------------------------------------------------------- the scheduler, call after call
\* The Scheduler with every failure a call can meet: the initial run and each firing
\* of the cron task call runUpdate, taken here one call after the other (SchedSpec
\* has the calls that overlap). runUpdate passes no options to updateSubmodules.

\* What runUpdate writes to the console for a call that ended with `result` and
\* the outcomes `outcomes`.
Console(result, outcomes) ==
  {<<"Starting submodule update">>}
    \cup (IF result.status = "threw"
            THEN {<<"Error during scheduled update">>}
          ELSE IF Len(outcomes) > 0
            THEN {<<"Update results">>}
                   \cup {<<IF outcomes[i].updated THEN "Updated" ELSE "Failed to update",
                           outcomes[i].submodule>> : i \in 1..Len(outcomes)}
          ELSE {<<"No submodules needed updates">>})

\* The cron task once a call of runUpdate has settled: a rejection is handled
\* nowhere in the callback, and ends the process with its task.
TaskAfter(settled) == IF settled = "rejected" THEN "stopped" ELSE "scheduled"

\* The initial run, or the cron task firing: runUpdate calls updateSubmodules.
RunUpdateStarts ==
  /\ task = "scheduled"
  /\ StartRun

\* updateSubmodules has returned or thrown: runUpdate logs, and settles.
RunUpdateEnds ==
  /\ task = "scheduled"
  /\ Handover
  /\ unit' = [fn |-> "runUpdate", run |-> runs, threw |-> runResult.status = "threw",
              settled |-> RunUpdateSettles(runResult),
              console |-> Console(runResult, results)]
  /\ task' = TaskAfter(RunUpdateSettles(runResult))
  /\ UNCHANGED <<runUpdate, exitCode>>

TickNext ==
  \/ SchedulerStart
  \/ UpstreamChange
  \/ RunUpdateStarts
  \/ InitializeRepository
  \/ ParseGitmodules
  \/ ResolveCommits
  \/ UpdateSingleSubmodule
  \/ SyncRemote
  \/ Push
  \/ RunUpdateEnds

\* While the task is scheduled, cron goes on firing it: a call that can start
\* does start.
TickSpec == Init /\ [][TickNext]_vars /\ WF_vars(RunUpdateStarts)

\* ---------------------------------------------------------------- commitSubmoduleUpdate, the message
MaxCommits == 2     \* commits made by commitSubmoduleUpdate in one history

\* Subject lines of commits made by others.
Subjects == {<<"Fix", "typo">>, <<"Add", "feature">>}
NoSubject == <<>>

\* git.log({maxCount: 1}) in a repository whose latest commit has the subject
\* `head` (NoSubject: no commit yet): the latest entry, or the command fails.
LogAnswers(head) ==
  {[kind |-> "error", message |-> NoSubject],
   IF head = NoSubject THEN [kind |-> "empty", message |-> NoSubject]
   ELSE [kind |-> "latest", message |-> head]}

\* getLatestCommitMessage: the subject of the latest commit, 'Initial commit' when
\* there is none, 'Update submodules' when the log cannot be read.
GetLatestCommitMessage(log) ==
  IF log.kind = "error" THEN <<"Update", "submodules">>
  ELSE IF log.kind = "empty" THEN <<"Initial", "commit">>
  ELSE log.message

\* The template of commitSubmoduleUpdate, line by line.
CommitMessage(syncCommitMessage, submodulePath, fromCommit, toCommit) ==
  <<syncCommitMessage,
    <<>>,
    <<"Update", "submodule", submodulePath>>,
    <<"-", "From:", fromCommit>>,
    <<"-", "To:", toCommit>>>>

\* A history of one repository starts: the subject of its latest commit.
CommitInit ==
  /\ Parked
  /\ \E head \in Subjects \cup {NoSubject} :
       unit = [fn |-> "commitSubmoduleUpdate", head |-> head, made |-> <<>>]

\* commitSubmoduleUpdate(submodulePath, fromCommit, toCommit): the message is built
\* and the commit made; its first line is the subject of the new latest commit.
CommitSubmoduleUpdate ==
  /\ unit.fn = "commitSubmoduleUpdate"
  /\ Len(unit.made) < MaxCommits
  /\ \E path \in SubPaths, from \in {"c1", "c2"}, to \in {"c1", "c2"},
        log \in LogAnswers(unit.head) :
       LET message == CommitMessage(GetLatestCommitMessage(log), path, from, to) IN
       /\ from # to
       /\ unit' = [unit EXCEPT
                     !.head = message[1],
                     !.made = Append(@, [path |-> path, from |-> from, to |-> to,
                                         message |-> message])]
  /\ UNCHANGED <<task, runUpdate, exitCode, config, disk, tree, world, history, engine>>

\* A commit of somebody else becomes the latest one (pulled, or made in the
\* working tree).
ForeignCommit ==
  /\ unit.fn = "commitSubmoduleUpdate"
  /\ \E subject \in Subjects :
       /\ subject # unit.head
       /\ unit' = [unit EXCEPT !.head = subject]
  /\ UNCHANGED <<task, runUpdate, exitCode, config, disk, tree, world, history, engine>>

CommitNext ==
  \/ CommitSubmoduleUpdate
  \/ ForeignCommit

CommitSpec == CommitInit /\ [][CommitNext]_vars

\* ---------------------------------------------------------------- Scheduler.start, the cron expression
MaxInterval == 120  \* intervalMinutes goes from 1 to this
MaxMinutes == 1500  \* minutes the clock runs after start, a day and one hour

\* A field of a cron expression: '*/n' matches the values n divides (counted from
\* the field's lowest value, 0 for minutes and hours), '0' matches 0, '*' is '*/1'.
Every(n) == [kind |-> "every", n |-> n]
At(n) == [kind |-> "at", n |-> n]
Matches(field, v) == IF field.kind = "at" THEN v = field.n ELSE v % field.n = 0

\* Scheduler.start: the expression built from intervalMinutes, its minute and hour
\* fields (the other three are '*').
CronExpression(intervalMinutes) ==
  IF intervalMinutes < 60 THEN [minute |-> Every(intervalMinutes), hour |-> Every(1)]
  ELSE LET hours == intervalMinutes \div 60
           minutes == intervalMinutes % 60
       IN IF minutes = 0 THEN [minute |-> At(0), hour |-> Every(hours)]
          ELSE [minute |-> Every(1), hour |-> Every(1)]

\* new Date() at minute `now` after a midnight: getHours() and getMinutes().
GetHours(now) == (now \div 60) % 24
GetMinutes(now) == now % 60

\* The test at the head of the scheduled callback: the execution is skipped.
SkipsExecution(intervalMinutes, now) ==
  /\ intervalMinutes >= 60
  /\ intervalMinutes % 60 # 0
  /\ (GetHours(now) * 60 + GetMinutes(now)) % intervalMinutes # 0

\* node-cron calls the callback in the minutes the expression matches.
CronMatches(intervalMinutes, now) ==
  /\ Matches(CronExpression(intervalMinutes).minute, GetMinutes(now))
  /\ Matches(CronExpression(intervalMinutes).hour, GetHours(now))

\* start(intervalMinutes) at a midnight: no scheduled run yet.
StartInit ==
  /\ Parked
  /\ \E intervalMinutes \in 1..MaxInterval :
       unit = [fn |-> "start", intervalMinutes |-> intervalMinutes, now |-> 0,
               last |-> -1, gap |-> 0]

\* A minute the expression matches: the callback is called, and unless it skips
\* the execution, runUpdate is called. `gap` is the time since the run before.
CronFires ==
  /\ unit.fn = "start"
  /\ unit.now < MaxMinutes
  /\ CronMatches(unit.intervalMinutes, unit.now + 1)
  /\ unit' = IF SkipsExecution(unit.intervalMinutes, unit.now + 1)
               THEN [unit EXCEPT !.now = @ + 1]
             ELSE [unit EXCEPT !.now = @ + 1,
                               !.last = unit.now + 1,
                               !.gap = IF unit.last < 0 THEN 0 ELSE unit.now + 1 - unit.last]
  /\ UNCHANGED <<task, runUpdate, exitCode, config, disk, tree, world, history, engine>>

\* A minute the expression does not match.
MinutePasses ==
  /\ unit.fn = "start"
  /\ unit.now < MaxMinutes
  /\ ~CronMatches(unit.intervalMinutes, unit.now + 1)
  /\ unit' = [unit EXCEPT !.now = @ + 1]
  /\ UNCHANGED <<task, runUpdate, exitCode, config, disk, tree, world, history, engine>>

StartNext ==
  \/ CronFires
  \/ MinutePasses

StartSpec == StartInit /\ [][StartNext]_vars

\* ---------------------------------------------------------------- parseGitmodulesContent
MaxLines == 4       \* lines of a .gitmodules file

\* A trimmed line of the file, by what the parser can tell of it: a
\* '[submodule ...' header, 'key = value' for one of the three keys (the value "" is
\* a line such as 'path =', which the patterns do not match), or anything else.
HeaderLine == [kind |-> "header", value |-> Unset]
OtherLine == [kind |-> "other", value |-> Unset]
KeyLines == [kind : {"path", "url", "branch"}, value : {Unset, "a", "b"}]
FileLines == {HeaderLine, OtherLine} \cup KeyLines

\* The files of a given length, and of up to MaxLines lines.
FilesOf(n) == [1..n -> FileLines]
Files == UNION {FilesOf(n) : n \in 0..MaxLines}

\* trimmed.match(/^key\s*=\s*(.+)$/): the pattern wants one character of value.
KeyMatch(line, key) == line.kind = key /\ line.value # Unset

\* currentSubmodule as a header leaves it, with path, url and branch not set.
FreshSubmodule ==
  [path |-> Unset, url |-> Unset, branch |-> Unset,
   currentCommit |-> Unset, latestCommit |-> Unset, needsUpdate |-> FALSE]

\* The test before each push: inSubmodule && currentSubmodule.path && .url.
Complete(st) ==
  st.inSubmodule /\ st.currentSubmodule.path # Unset /\ st.currentSubmodule.url # Unset

\* A loop that keeps the keys of the section before at a header: what C29 rules out.
ParseLineKeeping(st, line) ==
  IF line.kind = "header"
    THEN [st EXCEPT !.submodules = IF Complete(st) THEN Append(@, st.currentSubmodule) ELSE @,
                    !.inSubmodule = TRUE]
  ELSE IF st.inSubmodule /\ KeyMatch(line, line.kind)
    THEN [st EXCEPT !.currentSubmodule[line.kind] = line.value]
  ELSE st

\* One turn of the loop over the lines.
ParseLine(st, line) ==
  IF line.kind = "header"
    THEN [submodules |-> IF Complete(st) THEN Append(st.submodules, st.currentSubmodule)
                         ELSE st.submodules,
          currentSubmodule |-> FreshSubmodule,
          inSubmodule |-> TRUE]
  ELSE IF ~st.inSubmodule THEN st
  ELSE IF KeyMatch(line, "path") THEN [st EXCEPT !.currentSubmodule.path = line.value]
  ELSE IF KeyMatch(line, "url") THEN [st EXCEPT !.currentSubmodule.url = line.value]
  ELSE IF KeyMatch(line, "branch") THEN [st EXCEPT !.currentSubmodule.branch = line.value]
  ELSE st

RECURSIVE ParseLines(_, _)
ParseLines(st, lines) ==
  IF lines = <<>> THEN st
  ELSE ParseLines(ParseLine(st, Head(lines)), SubSeq(lines, 2, Len(lines)))

\* parseGitmodulesContent: the loop, then the push of the last section.
ParseGitmodulesContent(lines) ==
  LET st == ParseLines([submodules |-> <<>>, currentSubmodule |-> FreshSubmodule,
                        inSubmodule |-> FALSE], lines)
  IN IF Complete(st) THEN Append(st.submodules, st.currentSubmodule) ELSE st.submodules

\* A file is there to be parsed.
ParseInit ==
  /\ Parked
  /\ \E lines \in Files :
       unit = [fn |-> "parseGitmodulesContent", lines |-> lines, parsed |-> FALSE,
               submodules |-> <<>>]

\* parseGitmodulesContent(content) returns.
ParseContent ==
  /\ unit.fn = "parseGitmodulesContent"
  /\ ~unit.parsed
  /\ unit' = [unit EXCEPT !.parsed = TRUE, !.submodules = ParseGitmodulesContent(unit.lines)]
  /\ UNCHANGED <<task, runUpdate, exitCode, config, disk, tree, world, history, engine>>

ParseNext == ParseContent

ParseSpec == ParseInit /\ [][ParseNext]_vars

\* ---------------------------------------------------------------- updateSubmodule, the submodule's tree
\* Commits of a submodule, for its tree, the parent's binding and the target.
SubCommits == Commits \cup {"c0"}

\* What a failed call inside updateSubmodule leaves: git submodule update, fetch and
\* checkout each either do their work or fail without moving the tree.
Ran(r, sub, moved) == IF r = NoError THEN moved ELSE sub

\* An update that logs a failed checkout and returns: what C31 rules out.
UpdateSubmoduleLenient(sub, index, targetCommit, r) ==
  LET synced == Ran(r.update, sub, index)
      out == IF r.update # NoError \/ r.fetch # NoError THEN synced
             ELSE Ran(r.checkout, synced, targetCommit)
  IN [tree |-> out, error |-> NoError]

\* updateSubmodule(submodulePath, targetCommit) on a submodule whose tree is at
\* `sub` and which the parent's index binds to `index`: git submodule update
\* --init --recursive <path>, fetch --all --prune and checkout <targetCommit> in the
\* submodule, answering `r`; every error is thrown on in one wrapping.
UpdateSubmodule(sub, index, targetCommit, r) ==
  LET synced == Ran(r.update, sub, index) IN
  IF r.update # NoError THEN [tree |-> synced, error |-> Wrap(FailedToUpdate, r.update)]
  ELSE IF r.fetch # NoError THEN [tree |-> synced, error |-> Wrap(FailedToUpdate, r.fetch)]
  ELSE [tree |-> Ran(r.checkout, synced, targetCommit),
        error |-> IF r.checkout = NoError THEN NoError
                  ELSE Wrap(FailedToUpdate, r.checkout)]

\* A submodule of a working tree as a call of updateSingleSubmodule finds it: the
\* tree wherever an earlier call or a reset of the parent left it.
CheckoutInit ==
  /\ Parked
  /\ \E path \in SubPaths, sub \in SubCommits, index \in SubCommits, target \in SubCommits :
       /\ target # index
       /\ unit = [fn |-> "updateSubmodule", path |-> path, tree |-> sub, index |-> index,
                  targetCommit |-> target, at |-> "start", before |-> sub,
                  error |-> NoError]

\* updateSingleSubmodule, first call: initializeSubmodules, git submodule init and
\* git submodule update --init --recursive. A failure ends updateSingleSubmodule.
InitializeSubmodules ==
  /\ unit.fn = "updateSubmodule"
  /\ unit.at = "start"
  /\ \E r \in GitResponses :
       unit' = [unit EXCEPT !.tree = Ran(r, @, unit.index),
                            !.at = IF r = NoError THEN "initialized" ELSE "over",
                            !.error = IF r = NoError THEN NoError
                                      ELSE Wrap(FailedToInitialize, r)]
  /\ UNCHANGED <<task, runUpdate, exitCode, config, disk, tree, world, history, engine>>

\* updateSingleSubmodule, second call: updateSubmodule. `before` keeps the commit
\* the tree was at when it was called.
CallUpdateSubmodule ==
  /\ unit.fn = "updateSubmodule"
  /\ unit.at = "initialized"
  /\ \E r \in [update : GitResponses, fetch : GitResponses, checkout : GitResponses] :
       LET out == UpdateSubmodule(unit.tree, unit.index, unit.targetCommit, r) IN
       unit' = [unit EXCEPT !.before = unit.tree,
                            !.tree = out.tree,
                            !.error = out.error,
                            !.at = IF out.error = NoError THEN "returned" ELSE "threw"]
  /\ UNCHANGED <<task, runUpdate, exitCode, config, disk, tree, world, history, engine>>

CheckoutNext ==
  \/ InitializeSubmodules
  \/ CallUpdateSubmodule

CheckoutSpec == CheckoutInit /\ [][CheckoutNext]_vars

\* ---------------------------------------------------------------- configureGitIdentity
DefaultName == "Submodule Updater"
DefaultEmail == "submodule-updater@system.local"

\* What git.log({maxCount: 1}) gives configureGitIdentity: the author of the latest
\* commit (a field may be empty), no commit, or an error.
AuthorLogs ==
  {[kind |-> "error", author_name |-> Unset, author_email |-> Unset],
   [kind |-> "empty", author_name |-> Unset, author_email |-> Unset]}
  \cup [kind : {"latest"}, author_name : {Unset, "Ann"}, author_email : {Unset, "ann@host"}]

\* a || b on strings: the empty string and undefined are both passed over.
Or(a, b) == IF a # Unset THEN a ELSE b

\* getLatestCommitAuthor: the author of the latest commit, each field defaulted;
\* the default identity when there is no commit or the log cannot be read.
GetLatestCommitAuthor(log) ==
  IF log.kind = "latest"
    THEN [name |-> Or(log.author_name, DefaultName),
          email |-> Or(log.author_email, DefaultEmail)]
  ELSE [name |-> DefaultName, email |-> DefaultEmail]

\* An identity taken whole from the latest commit when a part is missing: what C32
\* rules out.
ChosenIdentityWhole(name, email, env, log) ==
  IF Or(name, env.GIT_USER_NAME) = Unset \/ Or(email, env.GIT_USER_EMAIL) = Unset
    THEN GetLatestCommitAuthor(log)
  ELSE [name |-> Or(name, env.GIT_USER_NAME), email |-> Or(email, env.GIT_USER_EMAIL)]

\* configureGitIdentity(name, email) up to its addConfig calls: userName and
\* userEmail.
ChosenIdentity(name, email, env, log) ==
  LET userName == Or(name, env.GIT_USER_NAME)
      userEmail == Or(email, env.GIT_USER_EMAIL)
  IN IF userName = Unset \/ userEmail = Unset
       THEN LET originalAuthor == GetLatestCommitAuthor(log)
            IN [name |-> Or(userName, originalAuthor.name),
                email |-> Or(userEmail, originalAuthor.email)]
     ELSE [name |-> userName, email |-> userEmail]

\* A call of configureGitIdentity is about to be made: arguments, environment, log,
\* and the user.name and user.email the repository's configuration holds.
IdentityInit ==
  /\ Parked
  /\ \E name \in {Unset, "Bot"}, email \in {Unset, "bot@host"},
        env \in [GIT_USER_NAME : {Unset, "Env"}, GIT_USER_EMAIL : {Unset, "env@host"}],
        log \in AuthorLogs :
       unit = [fn |-> "configureGitIdentity", name |-> name, email |-> email, env |-> env,
               log |-> log, called |-> FALSE, warned |-> FALSE,
               user |-> [name |-> Unset, email |-> Unset]]

\* configureGitIdentity(name, email): addConfig user.name, then user.email; the
\* first that fails ends the call with a warning, nothing is thrown.
ConfigureGitIdentity ==
  /\ unit.fn = "configureGitIdentity"
  /\ ~unit.called
  /\ \E n \in GitResponses, e \in GitResponses :
       LET chosen == ChosenIdentity(unit.name, unit.email, unit.env, unit.log) IN
       /\ n # NoError => e = NoError
       /\ unit' = [unit EXCEPT
                     !.called = TRUE,
                     !.warned = (n # NoError \/ e # NoError),
                     !.user.name = IF n = NoError THEN chosen.name ELSE @,
                     !.user.email = IF n = NoError /\ e = NoError THEN chosen.email ELSE @]
  /\ UNCHANGED <<task, runUpdate, exitCode, config, disk, tree, world, history, engine>>

IdentityNext == ConfigureGitIdentity

IdentitySpec == IdentityInit /\ [][IdentityNext]_vars

\* ---------------------------------------------------------------- properties
\* Where in the log of the call pushChanges begins, 0 when it was not called.
PushAt ==
  IF \E i \in 1..Len(ops) : ops[i].op = "call pushChanges"
    THEN CHOOSE i \in 1..Len(ops) : ops[i].op = "call pushChanges"
    ELSE 0

\* The git commands of the call that pushChanges ran.
PushLog ==
  LET at == PushAt IN
  IF at = 0 THEN <<>> ELSE SubSeq(ops, at + 1, Len(ops))

\* The git commands of updateSingleSubmodule.
UpdateOpNames == {"submodule init", "submodule checkout", "add", "commit"}

\* The records an update is due for: needsUpdate and two different commits.
UpdateRequired(s) == s.needsUpdate /\ s.currentCommit # s.latestCommit
Required == SelectSeq(submodules, UpdateRequired)

\* C1: every call of updateSubmodules that provisioned a scratch clone has removed
\* the scratch directory when it completes, wherever the system temporary directory
\* lies. Stated for the calls in which no external call fails (rmSync included).
C1_ScratchRemoved ==
  (pc = "done" /\ clean) => \A d \in provisioned : fs[d] = "absent"

\* C2: when the direct push of a non-force pushChanges is refused as remote-ahead,
\* origin is fetched, then pull-and-merge runs, then exactly one more push is made
\* once the merge is through; that push ends the call, with the push done when it
\* succeeds and with its own error when it fails, and there is no third push.
C2_RetryOnce ==
  (/\ pc = "done"
   /\ Len(PushLog) > 0
   /\ PushLog[1].op = "push"
   /\ \/ Includes(PushLog[1].err, <<"non-fast-forward">>)
      \/ Includes(PushLog[1].err, <<"fetch", "first">>)
      \/ Includes(PushLog[1].err, <<"rejected">>))
  => LET log == PushLog
         last == log[Len(log)]
         merged == \E i \in 1..Len(log) :
                      log[i].op \in {"pull", "reset"} /\ log[i].err = NoError
     IN /\ Len(log) >= 2
        /\ log[2].op = "fetch"
        /\ log[2].err = NoError => (Len(log) >= 3 /\ log[3].op \in {"checkout", "pull"})
        /\ Count(log, "push") = (IF merged THEN 2 ELSE 1)
        /\ Count(log, "push --force") = 0
        /\ merged =>
             /\ last.op = "push"
             /\ IF last.err = NoError
                  THEN runResult = Returned /\ remoteBind = headBind
                  ELSE runResult = Threw(Wrap(FailedToPush, last.err))

\* C2's case: the direct push was refused, the merge went through and the second
\* push failed too.
C2_Witness ==
  /\ pc = "done"
  /\ Len(PushLog) > 0
  /\ PushLog[1].err = TxtNonFastForward
  /\ Count(PushLog, "push") = 2
  /\ PushLog[Len(PushLog)].err # NoError
  /\ runResult.status = "threw"

\* C3: a non-force push whose direct attempt fails with a text naming permission
\* denied, repository not found or protected branch is followed by no fetch, pull,
\* reset or second push, and the call fails at once.
C3_FatalKindsFailAtOnce ==
  (/\ pc = "done"
   /\ Len(PushLog) > 0
   /\ PushLog[1].op = "push"
   /\ \/ Includes(PushLog[1].err, <<"permission", "denied">>)
      \/ Includes(PushLog[1].err, <<"repository", "not", "found">>)
      \/ Includes(PushLog[1].err, <<"protected", "branch">>))
  => (Len(PushLog) = 1 /\ runResult.status = "threw")

\* C4: the outcomes are, in the order of .gitmodules, one for each record that has
\* needsUpdate and a recorded commit other than the upstream one, and none for any
\* other record; each carries the record's recorded commit as fromCommit and the
\* upstream commit as toCommit.
C4_OutcomesAreRequired ==
  (pc = "done" /\ runResult.status = "returned")
  => /\ Len(results) = Len(Required)
     /\ \A i \in 1..Len(results) :
          /\ results[i].submodule = Required[i].path
          /\ results[i].fromCommit = Required[i].currentCommit
          /\ results[i].toCommit = Required[i].latestCommit
     /\ \A i, j \in 1..Len(results) : i < j => results[i].submodule < results[j].submodule

\* C4's case: a call returned outcomes for some records and none for others.
C4_Witness ==
  /\ pc = "done"
  /\ runResult.status = "returned"
  /\ Len(results) > 0
  /\ Len(results) < Len(submodules)

\* The git commands of the k-th update of the call.
AttemptOps(k) ==
  LET inits == {i \in 1..Len(ops) : ops[i].op = "submodule init"}
      start == CHOOSE i \in inits : Cardinality({j \in inits : j <= i}) = k
      Goes(i) == i <= Len(ops) /\ ops[i].op \in UpdateOpNames \ {"submodule init"}
      end == CHOOSE e \in start + 1..start + 4 :
               ~Goes(e) /\ \A x \in start + 1..e - 1 : Goes(x)
  IN SubSeq(ops, start, end - 1)

\* C5: a failing update of one submodule is recorded as one outcome that is not
\* updated and carries an error; every later record due for an update is still
\* updated, its outcome saying whether its own commands succeeded; and no call
\* ends with the error of an update.
C5_FailureIsOneOutcome ==
  /\ Count(ops, "submodule init") = Len(results)
  /\ \A k \in 1..Len(results) :
       /\ results[k].updated <=> Failed(AttemptOps(k)) = {}
       /\ results[k].updated <=> results[k].error = NoError
  /\ (pc \in {"push", "done"} /\ results # <<>>) => Len(results) = Len(Required)
  /\ (pc = "done" /\ runResult.status = "threw" /\ results # <<>>)
       => \/ Includes(runResult.error, FailedToSync)
          \/ Includes(runResult.error, FailedToPush)

\* C5's case: an update failed and a later one was applied.
C5_Witness ==
  /\ pc = "done"
  /\ \E i, j \in 1..Len(results) :
       i < j /\ ~results[i].updated /\ results[j].updated

\* C6: a second call of updateSubmodules on the same updater, after a first call
\* that returned with every outcome applied and with no upstream change in
\* between, returns an empty sequence. Stated for second calls in which no
\* external call fails.
C6_SecondRunEmpty ==
  (pc = "done" /\ runs >= 2 /\ prevOk /\ ~changed /\ clean)
  => (runResult.status = "returned" /\ results = <<>>)

\* C7: with no repository path requested (and a GitHub configuration set), every
\* call works on a scratch clone it provisioned itself.
C7_FreshScratchEachRun ==
  (requestedPath = NoPath /\ githubConfig /\ pc \notin {"idle", "init"})
  => initBranch = "scratch"

\* C8: pushChanges is called, and a push is made, only in a call without skipPush
\* that has an applied outcome.
C8_PushOnlyWhenDue ==
  (\E i \in 1..Len(ops) : ops[i].op \in {"call pushChanges", "push", "push --force"})
  => (~opts.skipPush /\ \E i \in 1..Len(results) : results[i].updated)

\* C8's case: a call without skipPush and with an applied outcome called pushChanges.
C8_Witness ==
  /\ pc = "done"
  /\ ~opts.skipPush
  /\ Count(ops, "call pushChanges") = 1
  /\ \E i \in 1..Len(results) : results[i].updated

\* C9: a call of updateSubmodules calls pushChanges at most once, after the update
\* of every record and never in between; without force at most two pushes are made
\* in it, with force exactly one.
C9_OnePushPerRun ==
  LET at == PushAt
      pushes == Count(ops, "push")
      forced == Count(ops, "push --force")
  IN /\ at = 0 => pushes + forced = 0
     /\ at > 0 =>
          /\ idx > Len(submodules)
          /\ Len(results) = Len(Required)
          /\ \A i \in 1..at - 1 :
               ops[i].op \notin {"call pushChanges", "push", "push --force"}
          /\ \A i \in at + 1..Len(ops) :
               ops[i].op \notin UpdateOpNames \cup {"call pushChanges"}
     /\ IF opts.forcePush
          THEN /\ pushes = 0
               /\ forced <= 1
               /\ (pc = "done" /\ at > 0) => forced = 1
          ELSE /\ forced = 0
               /\ pushes <= 2
               /\ (pc = "done" /\ at > 0) => pushes >= 1

\* C9's case: two submodules were updated and pushed in one call of pushChanges.
C9_Witness ==
  /\ pc = "done"
  /\ Len(results) = 2
  /\ Count(ops, "call pushChanges") = 1
  /\ Count(ops, "push") + Count(ops, "push --force") >= 1

\* C10: when the push of a call fails at once with a text classified as permission
\* denied or protected branch, the call throws after it logged the suggestion of
\* that kind.
C10_GuidanceLogged ==
  (/\ pc = "done"
   /\ Len(PushLog) = 1
   /\ PushLog[1].err # NoError)
  => /\ runResult.status = "threw"
     /\ Includes(PushLog[1].err, <<"permission", "denied">>)
          => "permission denied" \in logged
     /\ Includes(PushLog[1].err, <<"protected", "branch">>)
          => "protected branch" \in logged

\* Where in the log of the call syncRemoteChanges begins, 0 when it was not called.
SyncAt ==
  IF \E i \in 1..Len(ops) : ops[i].op = "call syncRemoteChanges"
    THEN CHOOSE i \in 1..Len(ops) : ops[i].op = "call syncRemoteChanges"
    ELSE 0

\* The git commands of the call that syncRemoteChanges ran.
SyncLog ==
  LET from == SyncAt
      ends == {i \in from + 1..Len(ops) : ops[i].op = "call pushChanges"}
  IN IF from = 0 THEN <<>>
     ELSE IF ends = {} THEN SubSeq(ops, from + 1, Len(ops))
     ELSE SubSeq(ops, from + 1, (CHOOSE e \in ends : TRUE) - 1)

\* syncRemoteChanges threw: its first fetch failed, or its pull failed with no
\* submodule named, or its reset failed.
SyncThrew ==
  LET log == SyncLog IN
  /\ Len(log) > 0
  /\ LET last == log[Len(log)]
     IN \/ log[1].err # NoError
        \/ last.op = "pull" /\ last.err # NoError /\ ~Includes(last.err, <<"submodule">>)
        \/ last.op = "reset" /\ last.err # NoError

C12_ForcePushAlone ==
  (opts.forcePush /\ Count(ops, "call pushChanges") > 0 /\ pc = "done")
  => /\ Len(PushLog) = 1
     /\ PushLog[1].op = "push --force"
     /\ runResult = (IF PushLog[1].err = NoError
                       THEN Returned
                       ELSE Threw(Wrap(FailedToPush, PushLog[1].err)))
     /\ PushLog[1].err = NoError => remoteBind = headBind

\* C12's case: a forced push failed and the call threw.
C12_Witness ==
  /\ pc = "done"
  /\ opts.forcePush
  /\ Len(PushLog) = 1
  /\ PushLog[1].err # NoError
  /\ runResult.status = "threw"

\* The submodule paths the call has an outcome for.
OutcomePaths == {results[i].submodule : i \in 1..Len(results)}

\* C13: a record whose upstream commit was not resolved (the lookup failed, the URL
\* names no GitHub repository, or there is no GitHub service) has needsUpdate false,
\* gets no update and no outcome, and does not make the call throw.
C13_UnresolvedLeftAlone ==
  /\ \A i \in 1..Len(submodules) :
       submodules[i].path \notin resolved
       => /\ ~submodules[i].needsUpdate
          /\ submodules[i].path \notin OutcomePaths
  /\ Count(ops, "submodule init") = Len(results)
  /\ Count(ops, "submodule init") <= Cardinality(resolved)
  /\ (pc = "done" /\ submodules # <<>> /\ Failed(ops) = {}) => runResult = Returned

\* C13's case: a call returned although the lookup of a record failed whose upstream
\* had moved on; the record got no outcome.
C13_Witness ==
  /\ pc = "done"
  /\ runResult = Returned
  /\ githubConfig
  /\ \E i \in 1..Len(submodules) :
       /\ ExtractGitHubInfo(submodules[i].url)
       /\ submodules[i].path \notin resolved
       /\ upstream[submodules[i].path] # submodules[i].currentCommit
       /\ submodules[i].path \notin OutcomePaths

\* C14: a failed read of a submodule's recorded commit gives it 'unknown' and the
\* call goes on: every record has a recorded commit or 'unknown' when the update loop
\* starts, and every record GitHub was asked about has a latest commit.
C14_UnknownAndOn ==
  pc \in {"update", "push"}
  => \A i \in 1..Len(submodules) :
       /\ submodules[i].currentCommit \in Commits \cup {Unknown}
       /\ (githubConfig /\ ExtractGitHubInfo(submodules[i].url))
          => submodules[i].latestCommit \in Commits \cup {Unknown}
       /\ submodules[i].path \in resolved
          => submodules[i].latestCommit = upstream[submodules[i].path]

\* C14's case: one recorded commit could not be read, another record was read and
\* resolved, and the update loop is starting.
C14_Witness ==
  /\ pc = "update"
  /\ results = <<>>
  /\ \E i, j \in 1..Len(submodules) :
       /\ submodules[i].currentCommit = Unknown
       /\ submodules[j].currentCommit \in Commits
       /\ submodules[j].path \in resolved

\* initializeRepository got the call a working tree with the repository in it.
TreeProvided ==
  \/ initBranch \in {"cwd", "local"}
  \/ githubConfig /\ initBranch \in {"scratch", "into", "fallback"}

\* C15: with no submodule in .gitmodules the call returns no outcome and runs no
\* submodule command, no commit, no synchronisation and no push; it returns when
\* nothing fails, and the scratch clone is removed as after any call.
C15_NothingToDo ==
  (pc = "done" /\ manifest = <<>>)
  => /\ results = <<>>
     /\ \A i \in 1..Len(ops) : ops[i].op = "config"
     /\ (clean /\ TreeProvided) => runResult = Returned
     /\ runResult.status = "threw"
        => runResult.error \in {MsgPathMissing, MsgCloneFailed, Wrap(FailedToRead, TxtGit)}
     /\ (clean /\ tmpdir = "/tmp") => \A d \in provisioned : fs[d] = "absent"

\* C15's case: a call on a scratch clone with an empty .gitmodules returned, and
\* the clone is gone.
C15_Witness ==
  /\ pc = "done"
  /\ manifest = <<>>
  /\ runResult = Returned
  /\ provisioned # {}
  /\ \A d \in provisioned : fs[d] = "absent"

\* C16: needsUpdate is true exactly for the records whose latest commit GitHub gave
\* and is another one than the recorded commit.
C16_NeedsUpdateExact ==
  \A i \in 1..Len(submodules) :
    LET s == submodules[i] IN
    /\ s.needsUpdate <=> (s.path \in resolved /\ s.latestCommit # s.currentCommit)
    /\ s.path \in resolved => s.latestCommit = upstream[s.path]

\* C16's case: of two records GitHub resolved, one is due and the other is not.
C16_Witness ==
  /\ pc = "update"
  /\ \E i, j \in 1..Len(submodules) :
       /\ {submodules[i].path, submodules[j].path} \subseteq resolved
       /\ submodules[i].needsUpdate
       /\ ~submodules[j].needsUpdate

\* C17: initializeRepository leaves foreign content alone: a path that does not
\* exist ends the call with no clone; in a directory with foreign content no git
\* command is run and nothing changes, the call works in a scratch clone.
C17_ForeignUntouched ==
  /\ (pc = "done" /\ initBranch = "missing")
     => (runResult = Threw(MsgPathMissing) /\ provisioned = {} /\ ops = <<>>)
  /\ (pc \notin {"idle", "init"} /\ requestedPath # NoPath /\ fs[requestedPath] = "foreign")
     => \/ gitPath # requestedPath
        \/ pc = "done" /\ runResult = Threw(MsgCloneFailed) /\ ops = <<>>

\* C18: an empty directory set as the path gets the clone: the call works in it, no
\* scratch directory is made, and it is still there after cleanupRepository.
C18_CloneIntoEmpty ==
  (initBranch = "into" /\ pc \notin {"idle", "init"} /\ runResult # Threw(MsgCloneFailed))
  => /\ fs[requestedPath] = "git"
     /\ repoPath = requestedPath
     /\ gitPath = requestedPath
     /\ provisioned = {}
     /\ tempDir = NoPath

\* C19: when initializeRepository has returned, the git identity has been configured
\* if it made a scratch clone or cloned into the empty path set, and has not been if
\* it uses the repository at the path set.
C19_IdentityByBranch ==
  pc = "parse"
  => /\ initBranch \in {"scratch", "into", "fallback"} => Count(ops, "config") = 1
     /\ initBranch = "local" => Count(ops, "config") = 0

\* C20: one call of updateSubmodules at a time on the Scheduler's updater: the cron
\* task starts none while the initial run or an earlier tick's call is not over.
C20_OneRunAtATime == Cardinality(Running) <= 1

\* C21: a run that fails as a whole, or one with an outcome that was not applied,
\* is reported with a non-zero outcome: in run-once mode the process does not exit
\* with 0 after such a run.
C21_FailureExitsNonZero ==
  exitCode = "exit 0" =>
    /\ runResult.status = "returned"
    /\ \A i \in 1..Len(results) : results[i].updated

\* C22: teardown removes only a directory the provisioner made as scratch, never
\* the path the caller gave (one cloned into included); once the directory is
\* removed, a further teardown removes nothing; and a removal that fails is never
\* raised: no call ends with what rmSync raised.
C22_TeardownScratchOnly ==
  [][/\ \A p \in AllPaths :
          fs[p] \in {"git", "foreign"} /\ fs'[p] = "absent"
            => p = tempDir /\ p \notin {requestedPath, CwdPath} /\ tempDir' = NoPath
     /\ (tempDir = NoPath /\ provisioned' = provisioned)
          => \A p \in AllPaths : fs[p] \in {"git", "foreign"} => fs'[p] = fs[p]
     /\ runResult'.status = "threw" => runResult'.error \notin GitResponses]_vars

\* The second call after a scratch clone that was removed: the teardown is called
\* for the stale scratch path and finds nothing tracked.
C22_Witness ==
  /\ runs = 2
  /\ pc = "done"
  /\ tempDir = NoPath
  /\ repoPath \notin {NoPath, CwdPath, requestedPath}
  /\ StartsWithTmpPrefix(repoPath)
  /\ fs[repoPath] = "absent"

C24_MessageFixed ==
  unit.fn = "commitSubmoduleUpdate" =>
    \A i, j \in 1..Len(unit.made) :
      LET a == unit.made[i]
          b == unit.made[j]
      IN /\ Len(a.message) = 5
         /\ a.message[1] # <<>>
         /\ a.message[2] = <<>>
         /\ a.message[3] = <<"Update", "submodule", a.path>>
         /\ a.message[4] = <<"-", "From:", a.from>>
         /\ a.message[5] = <<"-", "To:", a.to>>
         /\ (a.path = b.path /\ a.from = b.from /\ a.to = b.to) => a.message = b.message

\* C25: for every intervalMinutes of 1 or more, Scheduler.start triggers a run
\* every intervalMinutes minutes: two consecutive scheduled runs are exactly
\* intervalMinutes apart, across hour and day boundaries too, whether or not the
\* interval divides 60 or is a multiple of 60.
C25_RunsIntervalApart ==
  (unit.fn = "start" /\ unit.gap # 0) => unit.gap = unit.intervalMinutes

\* C26: the detection of a remote that moved on is best effort. When the fetch or
\* the comparison of isBehindRemote fails, it answers false and raises nothing:
\* syncRemoteChanges then ends without a pull or a reset and without an error, and
\* the call goes on to its push.
C26_DetectionBestEffort ==
  LET log == SyncLog IN
  (Len(log) >= 2 /\ log[2].op = "fetch" /\ log[2].err # NoError)
    => /\ Len(log) = 2
       /\ log[1] = Op("fetch", NoError)
       /\ ~SyncThrew
       /\ pc \in {"push", "done"}
       /\ runResult.status = "threw" => ~Includes(runResult.error, FailedToSync)
       /\ (pc = "done" /\ Count(ops, "call pushChanges") = 0)
            => (runResult = Returned /\ ~ShouldPush(opts, results))

\* The fetch of isBehindRemote failed, and the call pushed and returned.
C26_Witness ==
  /\ pc = "done"
  /\ Len(SyncLog) = 2
  /\ SyncLog[2].op = "fetch"
  /\ SyncLog[2].err # NoError
  /\ Count(ops, "push") = 1
  /\ runResult = Returned

\* C28: every outcome carries an error exactly when it is not updated.
C28_ErrorIffNotUpdated ==
  \A k \in 1..Len(results) : results[k].error # NoError <=> ~results[k].updated

\* A call that returned one outcome of each kind.
C28_Witness ==
  /\ pc = "done"
  /\ runResult = Returned
  /\ \E i, j \in 1..Len(results) :
       /\ results[i].updated /\ results[i].error = NoError
       /\ ~results[j].updated /\ results[j].error # NoError

\* C30: in pullAndMerge and in syncRemoteChanges, a pull that fails because of a
\* submodule conflict is recovered by a hard reset to origin/<branch>, after which
\* the operation succeeds and no merge is left unresolved; a pull that fails for any
\* other reason is followed by no reset, and its error propagates.
C30_ResetOnConflictOnly ==
  \A i \in 1..Len(ops) :
    (ops[i].op = "pull" /\ ops[i].err # NoError) =>
      IF Includes(ops[i].err, <<"CONFLICT", "submodule">>)
        THEN /\ i < Len(ops)
             /\ ops[i + 1].op = "reset"
             /\ ops[i + 1].err = NoError
                  => ~(runResult.status = "threw" /\ Includes(runResult.error, ops[i].err))
        ELSE /\ i = Len(ops)
             /\ pc = "done"
             /\ runResult.status = "threw"
             /\ Includes(runResult.error, ops[i].err)

\* C27: when the commit of an update was discarded by a hard reset to
\* origin/<branch> in the previous call, the next call, with no upstream change in
\* between and no failure of its own, finds the same submodule due for an update
\* again and attempts it.
C27_LostUpdateRetried ==
  (pc = "done" /\ runs >= 2 /\ ~changed /\ clean)
    => \A p \in lost :
         /\ \E i \in 1..Len(submodules) : submodules[i].path = p /\ submodules[i].needsUpdate
         /\ \E k \in 1..Len(results) : results[k].submodule = p

\* The sections of a file as its text has them: the lines of the header at `h`, up
\* to the next header; the last line of a section that gives `key` a value.
Headers(lines) == {i \in 1..Len(lines) : lines[i].kind = "header"}
SectionOf(lines, h) ==
  {j \in h + 1..Len(lines) : \A i \in h + 1..j : lines[i].kind # "header"}
Gives(lines, h, key) ==
  {j \in SectionOf(lines, h) : lines[j].kind = key /\ lines[j].value # Unset}
Given(lines, h, key) ==
  IF Gives(lines, h, key) = {} THEN Unset
  ELSE lines[CHOOSE j \in Gives(lines, h, key) : \A k \in Gives(lines, h, key) : k <= j].value
Whole(lines) ==
  {h \in Headers(lines) : Gives(lines, h, "path") # {} /\ Gives(lines, h, "url") # {}}

\* C29: parsing the manifest gives, in the order of the file, exactly one record for
\* each [submodule ...] section that has both a path and a url, with the values of
\* that section; a section without path or without url is passed over; and this for
\* every sequence of headers and key lines.
C29_OneRecordPerWholeSection ==
  (unit.fn = "parseGitmodulesContent" /\ unit.parsed) =>
    LET lines == unit.lines
        out == unit.submodules
        whole == Whole(lines)
        Nth(k) == CHOOSE h \in whole : Cardinality({g \in whole : g < h}) = k - 1
    IN /\ Len(out) = Cardinality(whole)
       /\ \A k \in 1..Len(out) :
            /\ out[k].path = Given(lines, Nth(k), "path")
            /\ out[k].url = Given(lines, Nth(k), "url")
            /\ out[k].branch = Given(lines, Nth(k), "branch")
            /\ out[k].currentCommit = Unset
            /\ out[k].latestCommit = Unset
            /\ ~out[k].needsUpdate

\* A parsed file with a section that has both keys, which gave a record, and a
\* section that lacks one, which gave none.
C29_Witness ==
  /\ unit.fn = "parseGitmodulesContent"
  /\ unit.parsed
  /\ Cardinality(Headers(unit.lines)) > Cardinality(Whole(unit.lines))
  /\ Len(unit.submodules) >= 1
  /\ Cardinality(Whole(unit.lines)) >= 1

\* C31: updateSubmodule never applies in part. After it returns, the submodule's
\* tree is checked out at exactly targetCommit; after it fails, the tree is at the
\* commit it was at before the call, and the error is thrown on.
C31_CheckoutAllOrNothing ==
  unit.fn = "updateSubmodule" =>
    /\ unit.at = "returned" => (unit.tree = unit.targetCommit /\ unit.error = NoError)
    /\ unit.at = "threw" =>
         /\ unit.tree = unit.before
         /\ Includes(unit.error, FailedToUpdate)
    /\ unit.at \in {"returned", "threw"} => unit.before = unit.index

\* updateSubmodule failed on a submodule whose tree initializeSubmodules had to
\* move to the bound commit first.
C31_Witness ==
  /\ unit.fn = "updateSubmodule"
  /\ unit.at = "threw"
  /\ unit.tree = unit.index
  /\ unit.tree # unit.targetCommit

\* The first of the candidates that is not empty.
RECURSIVE FirstSet(_)
FirstSet(candidates) ==
  IF Len(candidates) = 1 \/ Head(candidates) # Unset THEN Head(candidates)
  ELSE FirstSet(SubSeq(candidates, 2, Len(candidates)))

C33_AppliedIsOnRemote ==
  (pc = "done" /\ runResult = Returned /\ ~opts.skipPush)
    => \A k \in 1..Len(results) :
         results[k].updated => remoteBind[results[k].submodule] = results[k].toCommit

\* C34: a submodule whose outcome is not updated keeps, for the rest of the call,
\* the binding the parent repository had committed for it: a binding staged before
\* its commit failed is in no later commit, local or pushed.
C34_FailedStaysUncommitted ==
  \A k \in 1..Len(results) :
    ~results[k].updated =>
      /\ headBind[results[k].submodule] # results[k].toCommit
      /\ remoteBind[results[k].submodule] # results[k].toCommit

\* C35: on an existing local repository the cycle can be resumed. When a call
\* committed an update and its push failed, a later call in which pushing would
\* succeed pushes that commit, also with no upstream change in between: a later
\* call without skipPush in which nothing fails, and which returns, leaves no commit
\* that origin lacks.
C35_UnpushedCommitResumed ==
  (/\ pc = "done"
   /\ runs >= 2
   /\ pushFailed
   /\ initBranch \in {"local", "cwd"}
   /\ clean
   /\ ~opts.skipPush
   /\ runResult = Returned)
    => headBind = remoteBind

\* C36: when two calls on the one updater overlap, the teardown of one never
\* removes the scratch tree the other still works in, and once every call is over
\* every scratch directory a call made is removed.
C36_OverlapKeepsScratch ==
  /\ \A k \in 0..MaxTicks :
       (runUpdate[k] = "work" /\ gitPath \in ScratchPaths) => fs[gitPath] = "git"
  /\ (Running = {} /\ Cardinality({k \in 0..MaxTicks : runUpdate[k] = "done"}) >= 2)
       => \A p \in ScratchPaths : fs[p] = "absent"

\* C37: runUpdate never passes an error on: whatever fails in a call, the call
\* settles fulfilled with the error on the console, the cron task stays scheduled,
\* and a later firing starts a new call.
C37_RunUpdateNeverRaises ==
  /\ [][task = "scheduled" => task' = "scheduled"]_vars
  /\ [](unit.fn = "runUpdate" =>
         /\ unit.settled = "fulfilled"
         /\ unit.threw => <<"Error during scheduled update">> \in unit.console)
  /\ (unit.fn = "runUpdate" /\ unit.threw /\ pc = "idle" /\ runs < MaxRuns) ~> (pc = "init")

C37_Witness ==
  /\ unit.fn = "runUpdate"
  /\ unit.threw
  /\ unit.run = 1
  /\ task = "scheduled"
  /\ pc = "init"
  /\ runs = 2

\* The commands of the call that come after initializeRepository: syncSubmodules
\* is the first of them.
AfterProvisioning ==
  {i \in 1..Len(ops) : \E j \in 1..i : ops[j].op = "submodule update"}

\* C38: a call with skipPush does nothing against the remote of the parent
\* repository once the repository is provisioned: neither syncRemoteChanges nor
\* pushChanges is called and no fetch, pull, reset or push is run, while every
\* record due for an update has its outcome, each applied one with its commit in
\* HEAD, and the outcomes are returned.
C38_SkipPushStaysLocal ==
  opts.skipPush =>
    /\ \A i \in AfterProvisioning :
         ops[i].op \notin {"call syncRemoteChanges", "call pushChanges",
                           "fetch", "pull", "reset", "push", "push --force"}
    /\ pc = "done"
    /\ runResult = Returned
    /\ Len(results) = Len(Required)
    /\ \A i \in 1..Len(results) :
         results[i].updated => headBind[results[i].submodule] = results[i].toCommit
    /\ Cardinality({i \in 1..Len(ops) : ops[i] = Op("commit", NoError)})
         = Cardinality({i \in 1..Len(results) : results[i].updated})

\* C38's case: a call with skipPush applied an update and returned it, the
\* remote branch left as it was.
C38_Witness ==
  /\ opts.skipPush
  /\ pc = "done"
  /\ runResult = Returned
  /\ \E i \in 1..Len(results) : results[i].updated
  /\ \E i \in 1..Len(results) : ~results[i].updated
  /\ headBind # remoteBind

====
